---- MODULE Spec2Model ----
(***************************************************************************)
(* Size accounting of lru_time_cache (src/src/meter.rs): the Meter trait,  *)
(* the built-in Count and HeapSize meters, and the CountableMeter          *)
(* accumulation (add, sub, size) that the blanket impls select from the    *)
(* meter's Measure type.                                                   *)
(*                                                                         *)
(* Integers are scaled down: a u64 has U64Bits bits instead of 64, and a   *)
(* usize is as wide as a u64 (a 64-bit target, the widest usize there is). *)
(* `+` and `-` on usize keep that width: on overflow a build with          *)
(* overflow checks (the debug profile) panics, a build without them (the   *)
(* release profile) wraps modulo 2^UsizeBits.  The profile is chosen when  *)
(* the program is built and is part of the initial state.                  *)
(***************************************************************************)
EXTENDS Integers, FiniteSets, Sequences, TLC

VARIABLES
    meter,            \* the meter type T the caller was built with
    overflow_checks,  \* TRUE: arithmetic overflow panics; FALSE: it wraps
    total,            \* the caller's running total, of type T::Measure
    last,             \* the last call into the component and its outcome
    map,              \* cache: resident key -> the weight recorded for it
    added,            \* history of a cache or round trip: weights added so far
    removed,          \* history of a cache or round trip: weights subtracted so far
    t0,               \* round trip: the total before the sequence began
    pending,          \* round trip: weight -> times added and not yet subtracted
    phase             \* round trip: "adding", then "subtracting"

vars == <<meter, overflow_checks, total, last, map, added, removed, t0, pending, phase>>

(***************************************************************************)
(* Bounds.                                                                 *)
(***************************************************************************)
U64Bits == 8
MaxKeys == 10
CustomKeys == 3
MaxInserts == 10
MaxRemoves == 3
MaxSeq == 3
SizeOfV == 16

UsizeBits == U64Bits
MaxUsize == 2^UsizeBits - 1
Usize == 0..MaxUsize

(***************************************************************************)
(* Values.  () is the empty tuple; Option<u64> is Some(x) or None; a call  *)
(* either returns a value or panics (unwinds without returning one).       *)
(***************************************************************************)
Unit == <<>>
Some(x) == [some |-> TRUE, value |-> x]
None == [some |-> FALSE]
Return(v) == [panic |-> FALSE, value |-> v]
Panic == [panic |-> TRUE]

(***************************************************************************)
(* usize arithmetic and the widening cast, as the build computes them.     *)
(***************************************************************************)
\* Mutants of usize_add: a saturating sum; an overflow test off by one.
usize_add_saturating(a, b) ==
    IF a + b <= MaxUsize THEN Return(a + b) ELSE Return(MaxUsize)

usize_add_off_by_one(a, b) ==
    IF a + b < MaxUsize THEN Return(a + b)
    ELSE IF overflow_checks THEN Panic
    ELSE Return((a + b) % (MaxUsize + 1))

usize_add(a, b) ==
    IF a + b <= MaxUsize THEN Return(a + b)
    ELSE IF overflow_checks THEN Panic
    ELSE Return((a + b) % (MaxUsize + 1))

usize_sub(a, b) ==
    IF b <= a THEN Return(a - b)
    ELSE IF overflow_checks THEN Panic
    ELSE Return((a + (MaxUsize + 1) - b) % (MaxUsize + 1))

\* Mutant of as_u64: a cast to a type half as wide.
as_u32(x) == x % (2^(U64Bits \div 2))

as_u64(x) == x % (2^U64Bits)

(***************************************************************************)
(* The meters.  Count and HeapSize are the built-in ones; CustomUsize and  *)
(* CustomUnit stand for a user's `impl Meter` with Measure = usize and     *)
(* Measure = () that implements nothing but Meter.                         *)
(***************************************************************************)
Meters == {"Count", "HeapSize", "CustomUsize", "CustomUnit"}

Measure(T) == IF T \in {"Count", "CustomUnit"} THEN "unit" ELSE "usize"

\* Measure: Default
Default(T) == IF Measure(T) = "unit" THEN Unit ELSE 0

Keys == 1..MaxKeys
\* A value is identified by a number; a CustomUsize meter charges that
\* number as the value's cost.
Values == {0, 1, SizeOfV, MaxUsize \div 2, MaxUsize \div 2 + 1, MaxUsize - 1, MaxUsize}

measure_Count(key, value) == Return(Unit)

\* V is a plain type of SizeOfV bytes that owns no heap data.
heap_size_of_children(item) == 0

\* Mutant of measure_HeapSize: the shallow size of V is left out.
measure_HeapSize_children_only(key, item) == Return(heap_size_of_children(item))

measure_HeapSize(key, item) == usize_add(heap_size_of_children(item), SizeOfV)

measure_Custom(T, key, value) ==
    IF Measure(T) = "unit" THEN Return(Unit) ELSE Return(value)

measure(T, key, value) ==
    CASE T = "Count" -> measure_Count(key, value)
      [] T = "HeapSize" -> measure_HeapSize(key, value)
      [] OTHER -> measure_Custom(T, key, value)

(***************************************************************************)
(* CountableMeterWithMeasure<K, V, M>: the two impls.                      *)
(***************************************************************************)
\* Mutant of meter_add_usize: the no-op of the () impl.
meter_add_usize_noop(current, amount) == Return(current)

meter_add_usize(current, amount) == usize_add(current, amount)

\* Mutants of meter_sub_usize: the no-op of the () impl; a checked
\* subtraction that refuses amount = current.
meter_sub_usize_noop(current, amount) == Return(current)

meter_sub_usize_strict(current, amount) ==
    IF amount < current THEN Return(current - amount) ELSE Panic

meter_sub_usize(current, amount) == usize_sub(current, amount)

meter_size_usize(current) == Return(Some(as_u64(current)))

\* Mutant of meter_add_unit: a body left unimplemented.
meter_add_unit_unimplemented(current, amount) == Panic

meter_add_unit(current, amount) == Return(Unit)

meter_sub_unit(current, amount) == Return(Unit)

\* Mutant of meter_size_unit: a zero size instead of none.
meter_size_unit_zero(current) == Return(Some(0))

meter_size_unit(current) == Return(None)

\* Mutant of ImplFor: the usize impl written for HeapSize alone.
ImplFor_HeapSize_only(T, M) ==
    CASE M = "usize" /\ T = "HeapSize" -> "usize"
      [] M = "unit" /\ T = "Count" -> "unit"
      [] OTHER -> "none"

\* Which impl of CountableMeterWithMeasure<K, V, M> the compiler finds for T:
\* the usize one is for every T: Meter, the () one for Count alone.
ImplFor(T, M) ==
    CASE M = "usize" -> "usize"
      [] M = "unit" /\ T = "Count" -> "unit"
      [] OTHER -> "none"

\* The blanket impl of CountableMeter for T needs
\* T: CountableMeterWithMeasure<K, V, T::Measure>.
CountableMeter(T) == ImplFor(T, Measure(T))

ImplementsCountableMeter(T) == CountableMeter(T) # "none"

add(T, current, amount) ==
    IF CountableMeter(T) = "usize" THEN meter_add_usize(current, amount)
    ELSE meter_add_unit(current, amount)

sub(T, current, amount) ==
    IF CountableMeter(T) = "usize" THEN meter_sub_usize(current, amount)
    ELSE meter_sub_unit(current, amount)

size(T, current) ==
    IF CountableMeter(T) = "usize" THEN meter_size_usize(current)
    ELSE meter_size_unit(current)

(***************************************************************************)
(* The caller's side, common to the three specifications.                  *)
(***************************************************************************)
Panicked == last.out.panic

NoCall == [op |-> "none", out |-> Return(Unit)]

EmptyMap == [k \in {} |-> 0]

\* The amounts a caller passes: every usize while the total is the default
\* one, and otherwise the boundary values, the total itself and the two
\* amounts around the overflow of total + amount.
Amounts(T, current) ==
    IF Measure(T) = "unit" THEN {Unit}
    ELSE IF current = 0 THEN Usize
    ELSE Values \cup {current, MaxUsize - current, MaxUsize - current + 1}

\* The keys a cache is exercised with: a CustomUsize cache records a
\* different weight per value, so it gets fewer keys.
CacheKeys(T) == IF T = "CustomUsize" THEN 1..CustomKeys ELSE Keys

\* Count and HeapSize do not look at the value; CustomUsize charges it.
CacheValues(T) == IF T = "CustomUsize" THEN Values ELSE {0}

IdleCache == map = EmptyMap /\ added = 0 /\ removed = 0
IdleRoundTrip == t0 = 0 /\ pending = EmptyMap /\ phase = "none"

(***************************************************************************)
(* Spec: a caller holding a running total calls measure, add, sub and size *)
(* in any order with any arguments.                                        *)
(***************************************************************************)
Init ==
    /\ meter \in Meters
    /\ overflow_checks \in BOOLEAN
    /\ total = Default(meter)
    /\ last = NoCall
    /\ IdleCache
    /\ IdleRoundTrip

CallMeasure ==
    /\ ~Panicked
    /\ \E key \in CacheKeys("CustomUsize"), value \in Values :
          last' = [op |-> "measure", key |-> key, value |-> value,
                   out |-> measure(meter, key, value)]
    /\ UNCHANGED <<meter, overflow_checks, total, map, added, removed, t0, pending, phase>>

CallAdd ==
    /\ ~Panicked
    /\ ImplementsCountableMeter(meter)
    /\ \E amount \in Amounts(meter, total) :
          LET r == add(meter, total, amount) IN
          /\ last' = [op |-> "add", current |-> total, amount |-> amount, out |-> r]
          /\ total' = IF r.panic THEN total ELSE r.value
    /\ UNCHANGED <<meter, overflow_checks, map, added, removed, t0, pending, phase>>

CallSub ==
    /\ ~Panicked
    /\ ImplementsCountableMeter(meter)
    /\ \E amount \in Amounts(meter, total) :
          LET r == sub(meter, total, amount) IN
          /\ last' = [op |-> "sub", current |-> total, amount |-> amount, out |-> r]
          /\ total' = IF r.panic THEN total ELSE r.value
    /\ UNCHANGED <<meter, overflow_checks, map, added, removed, t0, pending, phase>>

CallSize ==
    /\ ~Panicked
    /\ ImplementsCountableMeter(meter)
    /\ last' = [op |-> "size", current |-> total, out |-> size(meter, total)]
    /\ UNCHANGED <<meter, overflow_checks, total, map, added, removed, t0, pending, phase>>

Next == CallMeasure \/ CallAdd \/ CallSub \/ CallSize

Spec == Init /\ [][Next]_vars

(***************************************************************************)
(* RoundTripSpec: from any total t0 of a usize meter, adds of up to MaxSeq *)
(* weights, then subs of the same weights in any order.                    *)
(***************************************************************************)
RtWeights == {1, SizeOfV, MaxUsize \div 2 + 1, MaxUsize}

RECURSIVE Count_(_, _)
Count_(f, S) ==
    IF S = {} THEN 0
    ELSE LET x == CHOOSE y \in S : TRUE IN f[x] + Count_(f, S \ {x})

NumPending == Count_(pending, DOMAIN pending)

RtInit ==
    /\ meter \in {T \in Meters : Measure(T) = "usize"}
    /\ overflow_checks \in BOOLEAN
    /\ t0 \in Usize
    /\ total = t0
    /\ pending = [w \in RtWeights |-> 0]
    /\ phase = "adding"
    /\ last = NoCall
    /\ IdleCache

RtAdd ==
    /\ ~Panicked
    /\ phase = "adding"
    /\ NumPending < MaxSeq
    /\ \E w \in RtWeights :
          LET r == add(meter, total, w) IN
          /\ last' = [op |-> "add", current |-> total, amount |-> w, out |-> r]
          /\ total' = IF r.panic THEN total ELSE r.value
          /\ pending' = IF r.panic THEN pending ELSE [pending EXCEPT ![w] = @ + 1]
          /\ added' = IF r.panic THEN added ELSE added + 1
    /\ UNCHANGED <<meter, overflow_checks, map, removed, t0, phase>>

RtTurn ==
    /\ ~Panicked
    /\ phase = "adding"
    /\ phase' = "subtracting"
    /\ UNCHANGED <<meter, overflow_checks, total, last, map, added, removed, t0, pending>>

RtSub ==
    /\ ~Panicked
    /\ phase = "subtracting"
    /\ \E w \in RtWeights :
          /\ pending[w] > 0
          /\ LET r == sub(meter, total, w) IN
             /\ last' = [op |-> "sub", current |-> total, amount |-> w, out |-> r]
             /\ total' = IF r.panic THEN total ELSE r.value
             /\ pending' = IF r.panic THEN pending ELSE [pending EXCEPT ![w] = @ - 1]
             /\ removed' = IF r.panic THEN removed ELSE removed + 1
    /\ UNCHANGED <<meter, overflow_checks, map, added, t0, phase>>

RtNext == RtAdd \/ RtTurn \/ RtSub

RoundTripSpec == RtInit /\ [][RtNext]_vars

RtDone == phase = "subtracting" /\ NumPending = 0

(***************************************************************************)
(* CacheSpec: a cache that follows the boundary protocol.  An insertion    *)
(* measures the entry, adds the weight to the total and records it; a      *)
(* removal subtracts the weight recorded for the entry; a capacity check   *)
(* asks size for the total and falls back to the number of entries.        *)
(***************************************************************************)
SumWeights(f) == Count_(f, DOMAIN f)

len(f) == Cardinality(DOMAIN f)

\* The resident values of a HeapSize cache lie in memory next to the one
\* being inserted: together they cannot exceed the address space.
FitsInMemory(T, n) == T = "HeapSize" => n * SizeOfV <= MaxUsize

Bump(n, max) == IF n < max THEN n + 1 ELSE max

CacheInit ==
    /\ meter \in {T \in Meters : ImplementsCountableMeter(T)}
    /\ overflow_checks \in BOOLEAN
    /\ total = Default(meter)
    /\ last = NoCall
    /\ IdleCache
    /\ IdleRoundTrip

Insert ==
    /\ ~Panicked
    /\ \E key \in CacheKeys(meter) \ DOMAIN map, value \in CacheValues(meter) :
          /\ FitsInMemory(meter, len(map) + 1)
          /\ LET m == measure(meter, key, value)
                 r == IF m.panic THEN Panic ELSE add(meter, total, m.value)
             IN
             /\ last' = [op |-> "insert", out |-> r]
             /\ total' = IF r.panic THEN total ELSE r.value
             /\ map' = IF r.panic THEN map
                       ELSE [k \in DOMAIN map \cup {key} |->
                                IF k = key THEN m.value ELSE map[k]]
             /\ added' = IF r.panic THEN added ELSE Bump(added, MaxInserts)
    /\ UNCHANGED <<meter, overflow_checks, removed, t0, pending, phase>>

Remove ==
    /\ ~Panicked
    /\ \E key \in DOMAIN map :
          LET r == sub(meter, total, map[key]) IN
          /\ last' = [op |-> "remove", out |-> r]
          /\ total' = IF r.panic THEN total ELSE r.value
          /\ map' = IF r.panic THEN map ELSE [k \in DOMAIN map \ {key} |-> map[k]]
          /\ removed' = IF r.panic THEN removed ELSE Bump(removed, MaxRemoves)
    /\ UNCHANGED <<meter, overflow_checks, added, t0, pending, phase>>

CapacityMetric(s) == IF s.some THEN s.value ELSE len(map)

CapacityCheck ==
    /\ ~Panicked
    /\ LET s == size(meter, total) IN
       last' = [op |-> "capacity",
                out |-> IF s.panic THEN Panic ELSE Return(CapacityMetric(s.value))]
    /\ UNCHANGED <<meter, overflow_checks, total, map, added, removed, t0, pending, phase>>

CacheNext == Insert \/ Remove \/ CapacityCheck

CacheSpec == CacheInit /\ [][CacheNext]_vars

(***************************************************************************)
(* The claims.                                                             *)
(***************************************************************************)
Scalar == Measure(meter) = "usize"

Wrap(n) == n % (MaxUsize + 1)

\* C1: from any total t0 of a usize meter, once the adds of w1..wn and the
\* subs of the same multiset of weights, in any order, have all been
\* applied, the running total is t0 again.
C1_RoundTripRestoresTotal == RtDone => total = t0

\* C1 witness: three adds from the largest total, which wrap, and the three
\* subs have been applied.
C1_Witness ==
    /\ RtDone
    /\ added = 3
    /\ removed = 3
    /\ ~overflow_checks
    /\ t0 = MaxUsize
    /\ last.op = "sub"
    /\ total = t0

\* C2: with the Count meter, after any sequence of add and sub calls the
\* running total is the unit value and size of it is None; no call fails;
\* measure returns the unit value for every key and value.
C2_CountIsAllNoOps ==
    meter = "Count" =>
        /\ total = Unit
        /\ size(meter, total) = Return(None)
        /\ (last.op \in {"add", "sub", "measure"} => last.out = Return(Unit))
        /\ (last.op = "size" => last.out = Return(None))

\* C2 witness: a sub has just been called on the Count meter.
C2_Witness ==
    /\ meter = "Count"
    /\ last.op = "sub"
    /\ last.out = Return(Unit)
    /\ total = Unit

\* C3: for a usize meter and every weight w, add(default total, w) returns
\* a total whose size is Some(w).
C3_SizeOfFirstAdd ==
    (Scalar /\ last.op = "add" /\ last.current = Default(meter)) =>
        /\ ~last.out.panic
        /\ total = last.out.value
        /\ size(meter, last.out.value) = Return(Some(last.amount))

\* C3 witness: the largest weight has been added to the default total.
C3_Witness ==
    /\ Scalar
    /\ last.op = "add"
    /\ last.current = 0
    /\ last.amount = MaxUsize
    /\ total = MaxUsize

ScalarBehaviour ==
    /\ (last.op = "add" /\ ~last.out.panic =>
          last.out.value = Wrap(last.current + last.amount))
    /\ (last.op = "sub" /\ ~last.out.panic =>
          last.out.value = Wrap(MaxUsize + 1 + last.current - last.amount))
    /\ (last.op = "size" => last.out = Return(Some(last.current)))

UnitBehaviour ==
    /\ (last.op \in {"add", "sub"} => last.out = Return(Unit))
    /\ (last.op = "size" => last.out = Return(None))

\* C7 as stated: every meter whose Measure is () or usize, custom or
\* built-in, has add, sub and size, with the behaviour of its Measure.
C7_Original ==
    /\ ImplementsCountableMeter(meter)
    /\ (Measure(meter) = "usize" => ScalarBehaviour)
    /\ (Measure(meter) = "unit" => UnitBehaviour)

\* C7 as amended: every meter whose Measure is usize, custom or built-in,
\* has add, sub and size with the scalar behaviour; of the meters whose
\* Measure is () only Count has them, with the unit behaviour, and a custom
\* one that supplies no impl of its own has no add, sub or size to call.
C7_ScalarForAllUnitForCount ==
    /\ (Measure(meter) = "usize" => CountableMeter(meter) = "usize" /\ ScalarBehaviour)
    /\ (meter = "Count" => CountableMeter(meter) = "unit" /\ UnitBehaviour)
    /\ (meter = "CustomUnit" =>
          ~ImplementsCountableMeter(meter) /\ last.op \in {"none", "measure"})

\* C7 witness: a custom usize meter has added to its total and the size of
\* the total has been asked.
C7_Witness ==
    /\ meter = "CustomUsize"
    /\ last.op = "size"
    /\ last.current > 0
    /\ last.out = Return(Some(total))

\* C8: for a usize meter, sub(t, t) returns zero, and size of that total is
\* Some(0).
C8_SubOfWholeTotalIsZero ==
    (Scalar /\ last.op = "sub" /\ last.amount = last.current) =>
        /\ last.out = Return(0)
        /\ total = 0
        /\ size(meter, total) = Return(Some(0))

\* C8 witness: the largest total has been subtracted from itself.
C8_Witness ==
    /\ Scalar
    /\ last.op = "sub"
    /\ last.current = MaxUsize
    /\ last.amount = MaxUsize
    /\ total = 0

\* C9: for a usize meter, size(current) is never None: it is Some of
\* exactly current, for every current.
C9_SizeIsTheTotal ==
    Scalar =>
        /\ size(meter, total) = Return(Some(total))
        /\ (last.op = "size" => last.out = Return(Some(last.current)))

\* C9 witness: size has been asked for the largest total.
C9_Witness ==
    /\ Scalar
    /\ last.op = "size"
    /\ last.current = MaxUsize
    /\ last.out = Return(Some(MaxUsize))

\* The resident entries of the cache all have the weight SizeOfV.
AllWeigh(w) == \A k \in DOMAIN map : map[k] = w

\* C4: in a cache whose meter gives every value the weight SizeOfV (16),
\* the size reported after any insertions and removals is SizeOfV times the
\* number of resident entries.
C4_SizeIsWeightTimesEntries ==
    meter = "HeapSize" =>
        /\ AllWeigh(SizeOfV)
        /\ size(meter, total) = Return(Some(SizeOfV * len(map)))
        /\ (last.op = "capacity" => last.out = Return(SizeOfV * len(map)))

\* C4 witness: ten insertions (160) and then three removals have left
\* seven entries and a reported size of 112.
C4_Witness ==
    /\ meter = "HeapSize"
    /\ added = 10
    /\ removed = 3
    /\ len(map) = 7
    /\ last.op = "remove"
    /\ size(meter, total) = Return(Some(112))

\* C5: in a cache with the Count meter every capacity check gets None from
\* size and reports the number of entries, n after n insertions, and does
\* not fail.
C5_CountFallsBackToEntries ==
    meter = "Count" =>
        /\ ~Panicked
        /\ size(meter, total) = Return(None)
        /\ (last.op = "capacity" => last.out = Return(len(map)))
        /\ (removed = 0 /\ added < MaxInserts => len(map) = added)

\* C5 witness: after five insertions the capacity check has reported 5.
C5_Witness ==
    /\ meter = "Count"
    /\ added = 5
    /\ removed = 0
    /\ last.op = "capacity"
    /\ last.out = Return(5)

\* C10 as stated: in a cache with a usize meter the running total always
\* equals the sum of the recorded weights of the resident entries, so it is
\* at least the weight of each of them.
C10_Original ==
    Scalar =>
        /\ total = SumWeights(map)
        /\ \A k \in DOMAIN map : map[k] <= total

\* C10 as amended: in a cache with a usize meter, in every state in which
\* the sum of the recorded weights of the resident entries is at most
\* usize::MAX, the running total equals that sum, so it is at least the
\* weight of each resident entry and subtracting that weight does not
\* underflow.
C10_TotalIsSumWhileItFits ==
    (Scalar /\ SumWeights(map) <= MaxUsize) =>
        /\ total = SumWeights(map)
        /\ \A k \in DOMAIN map :
              /\ map[k] <= total
              /\ sub(meter, total, map[k]) = Return(total - map[k])

\* C10 witness: after a removal the two entries left in a custom cache sum
\* to exactly usize::MAX, and so does the total.
C10_Witness ==
    /\ meter = "CustomUsize"
    /\ last.op = "remove"
    /\ ~Panicked
    /\ len(map) = 2
    /\ SumWeights(map) = MaxUsize
    /\ total = MaxUsize

====
